---------------------------- MODULE Spec2Model ----------------------------
(***************************************************************************)
(* UAV simulation server (src/main.py): the "uavs" table and the three     *)
(* request handlers that write it, put_uav, transfer_uav and process_uavs  *)
(* (with update_transfers).                                                *)
(*                                                                         *)
(* Spec serves whole requests one after the other, JourneySpec follows one *)
(* transfer through the ticks of its source city, and LoopSpec splits      *)
(* process_uavs at the lines between which the asyncio loop can switch to  *)
(* another request.                                                        *)
(*                                                                         *)
(* Float columns are kept in fixed point, one unit = 1/10000 of a          *)
(* coordinate unit, which is exact for the city anchors (two decimals)     *)
(* times an integer progress over 100.  Binary rounding of the floats is   *)
(* not modelled.                                                           *)
(***************************************************************************)
EXTENDS Integers, FiniteSets, TLC

VARIABLES
    uavs,      \* the rows of uav_table, a set of records
    last,      \* the latest request served and the response it was given
    served,    \* number of requests served so far
    running,   \* the process_uavs coroutine the event loop is running, if any
    suspended  \* the process_uavs coroutines waiting in an await

vars == <<uavs, last, served, running, suspended>>

-----------------------------------------------------------------------------
(* Bounds of the model *)

\* requests served in one run
MaxRequests == 3

\* uav_id values the clients use
UavIds == {1, 2}

\* city names the clients use: two configured ones and one that is not
ReqCities == {"Baghdad", "Basra", "Mosul"}

\* draws of random.uniform(-0.4, 0.4): both ends and an inner point
SpreadVals == {-4000, 0, 4000}

-----------------------------------------------------------------------------
(* Constants of the program *)

\* Python's None / SQL NULL
NULL == "NULL"

\* values of the system_case query parameter of process_uavs (NULL: absent)
CaseFilters == {NULL, "avoidance"}

\* fixed-point unit of the Float columns
Unit == 10000

\* CITY_COORDS, in units of 1/Unit
CITY_COORDS ==
    [Baghdad |-> <<333000, 444000>>,
     Basra   |-> <<305000, 478000>>,
     Najaf   |-> <<319900, 443100>>]

\* the scan's collision distance, "< 5"
CollisionDistance == 5

\* progress added per tick and the progress at which a transfer is finalized
ProgressStep == 10
ProgressMax == 100

\* random.uniform(-0.4, 0.4): the limits, in units of 1/Unit
SpreadLimit == 4000

-----------------------------------------------------------------------------
(* Request bodies *)

\* class UAV without uav_id: the payloads the clients send
Payloads ==
    { [x |-> 0, y |-> 0, altitude |-> 100, speed |-> 10,
       system_case |-> "normal", target_city |-> NULL, progress |-> 0],
      [x |-> 30000, y |-> 0, altitude |-> 120, speed |-> 12,
       system_case |-> "avoidance", target_city |-> NULL, progress |-> 0],
      [x |-> 50000, y |-> 0, altitude |-> 100, speed |-> 10,
       system_case |-> "normal", target_city |-> "Basra", progress |-> 90],
      [x |-> 0, y |-> 0, altitude |-> 100, speed |-> 10,
       system_case |-> "avoidance", target_city |-> "Baghdad", progress |-> 93],
      [x |-> 0, y |-> 0, altitude |-> 100, speed |-> 10,
       system_case |-> "normal", target_city |-> "Mosul", progress |-> 50],
      [x |-> 30000, y |-> 0, altitude |-> 100, speed |-> 10,
       system_case |-> "normal", target_city |-> "Basra", progress |-> -20] }

\* class UAV
UAV == { [uav_id |-> i] @@ p : i \in UavIds, p \in Payloads }

\* class TransferRequest
TransferRequest == [uav_id : UavIds, from_city : ReqCities, to_city : ReqCities]

-----------------------------------------------------------------------------
(* The table *)

\* the UPDATE without "uav_id = id" in its WHERE
UpdateWhereCity(rows, city, id, vals) ==
    { IF u.city_name = city THEN vals @@ u ELSE u : u \in rows }

\* UPDATE uav_table SET vals WHERE city_name = city AND uav_id = id
UpdateWhere(rows, city, id, vals) ==
    { IF u.city_name = city /\ u.uav_id = id THEN vals @@ u ELSE u : u \in rows }

\* session.query(uav_table).filter_by(city_name=city, uav_id=id)
FilterBy(rows, city, id) ==
    { u \in rows : u.city_name = city /\ u.uav_id = id }

\* a table whose uav_id column is not a key: every INSERT is accepted
NoPrimaryKey(rows, id) == TRUE

\* Column("uav_id", Integer, primary_key=True): an INSERT of a uav_id that
\* is already stored raises IntegrityError
PrimaryKeyFree(rows, id) == \A u \in rows : u.uav_id # id

-----------------------------------------------------------------------------
(* put_uav *)

\* the dict "values" of put_uav
Values(city, data) ==
    [x |-> data.x, y |-> data.y, altitude |-> data.altitude,
     speed |-> data.speed, system_case |-> data.system_case,
     city_name |-> city, target_city |-> data.target_city,
     progress |-> data.progress]

\* put_uav looking the row up, and updating it, by uav_id alone
PutResultById(rows, city, data) ==
    LET existing == { u \in rows : u.uav_id = data.uav_id }
        values   == Values(city, data)
    IN  IF existing # {}
        THEN [rows |-> { IF u.uav_id = data.uav_id THEN values @@ u ELSE u : u \in rows },
              status |-> "ok"]
        ELSE [rows |-> rows \cup {[uav_id |-> data.uav_id] @@ values},
              status |-> "ok"]

\* put_uav up to its commit: the table afterwards and the outcome.  The
\* IntegrityError of the INSERT leaves the handler before session.commit(),
\* and session.close() drops the transaction.
PutResult(rows, city, data) ==
    LET existing == FilterBy(rows, city, data.uav_id)
        values   == Values(city, data)
    IN  IF existing # {}
        THEN [rows |-> UpdateWhere(rows, city, data.uav_id, values),
              status |-> "ok"]
        ELSE IF PrimaryKeyFree(rows, data.uav_id)
        THEN [rows |-> rows \cup {[uav_id |-> data.uav_id] @@ values},
              status |-> "ok"]
        ELSE [rows |-> rows, status |-> "IntegrityError"]

-----------------------------------------------------------------------------
(* transfer_uav *)

\* transfer_uav's UPDATE without "progress=0"
TransferStartKeepsProgress(req) == [target_city |-> req.to_city]

\* the values of transfer_uav's UPDATE
TransferStart(req) == [target_city |-> req.to_city, progress |-> 0]

\* transfer_uav looking the row up by uav_id alone
TransferResultById(rows, req) ==
    LET uav == { u \in rows : u.uav_id = req.uav_id }
    IN  IF uav = {}
        THEN [rows |-> rows, status |-> "error"]
        ELSE [rows |-> UpdateWhere(rows, req.from_city, req.uav_id,
                                   TransferStart(req)),
              status |-> "ok"]

TransferResult(rows, req) ==
    LET uav == FilterBy(rows, req.from_city, req.uav_id)
    IN  IF uav = {}
        THEN [rows |-> rows, status |-> "error"]
        ELSE [rows |-> UpdateWhere(rows, req.from_city, req.uav_id,
                                   TransferStart(req)),
              status |-> "ok"]

-----------------------------------------------------------------------------
(* update_transfers *)

Min(a, b) == IF a < b THEN a ELSE b
Abs(a) == IF a < 0 THEN 0 - a ELSE a

\* the query of update_transfers: the rows of the city with a target_city
Transferring(rows, city) ==
    { u \in rows : u.city_name = city /\ u.target_city # NULL }

\* the "continue" of the loop
Skipped(u) ==
    \/ u.city_name \notin DOMAIN CITY_COORDS
    \/ u.target_city \notin DOMAIN CITY_COORDS

\* new_progress without the row's own progress
NewProgressRestart(u) == Min(ProgressStep, ProgressMax)

\* new_progress.  The column is never NULL (put_uav always writes an int),
\* so "u.progress or 0" is u.progress.
NewProgress(u) == Min(u.progress + ProgressStep, ProgressMax)

\* the interpolation started from the target's anchor
InterpolateFromTarget(a, b, np) == b + (np * (a - b)) \div ProgressMax

\* Ax + t * (Bx - Ax) with t = new_progress / 100
Interpolate(a, b, np) == a + (np * (b - a)) \div ProgressMax

\* the UPDATE with "new_progress > 100" as the arrival test
TransferValuesStrict(u, s) ==
    LET A  == CITY_COORDS[u.city_name]
        B  == CITY_COORDS[u.target_city]
        np == Min(u.progress + ProgressStep, ProgressMax)
    IN  IF np > ProgressMax
        THEN [city_name |-> u.target_city, target_city |-> NULL,
              progress |-> ProgressMax, x |-> B[1] + s[1], y |-> B[2] + s[2]]
        ELSE [x |-> Interpolate(A[1], B[1], np),
              y |-> Interpolate(A[2], B[2], np),
              progress |-> np]

\* the UPDATE moving the row to its target city on every tick
TransferValuesEager(u, s) ==
    LET A  == CITY_COORDS[u.city_name]
        B  == CITY_COORDS[u.target_city]
        np == Min(u.progress + ProgressStep, ProgressMax)
    IN  IF np >= ProgressMax
        THEN [city_name |-> u.target_city, target_city |-> NULL,
              progress |-> ProgressMax, x |-> B[1] + s[1], y |-> B[2] + s[2]]
        ELSE [city_name |-> u.target_city,
              x |-> Interpolate(A[1], B[1], np),
              y |-> Interpolate(A[2], B[2], np),
              progress |-> np]

\* the values of the UPDATE built for row u; s is the pair of spread draws
TransferValues(u, s) ==
    LET A  == CITY_COORDS[u.city_name]
        B  == CITY_COORDS[u.target_city]
        np == NewProgress(u)
    IN  IF np >= ProgressMax
        THEN [city_name |-> u.target_city, target_city |-> NULL,
              progress |-> ProgressMax, x |-> B[1] + s[1], y |-> B[2] + s[2]]
        ELSE [x |-> Interpolate(A[1], B[1], np),
              y |-> Interpolate(A[2], B[2], np),
              progress |-> np]

\* the rows of the city the loop does not skip
Advanced(rows, city) == { u \in Transferring(rows, city) : ~Skipped(u) }

\* the uav_ids of the rows of the city this tick finalizes: one pair of
\* spread draws is made for each
Arriving(rows, city) ==
    { u.uav_id : u \in { v \in Advanced(rows, city) : NewProgress(v) >= ProgressMax } }

\* the loop: one UPDATE per row read by the query, in the query's order
RECURSIVE ExecuteAll(_, _, _)
ExecuteAll(rows, todo, spread) ==
    IF todo = {} THEN rows
    ELSE LET u == CHOOSE v \in todo : TRUE
             s == IF u.uav_id \in DOMAIN spread THEN spread[u.uav_id] ELSE <<0, 0>>
         IN  ExecuteAll(UpdateWhere(rows, u.city_name, u.uav_id, TransferValues(u, s)),
                        todo \ {u}, spread)

\* update_transfers with "moved += 1" ahead of the "continue"
update_transfers_counting_skipped(rows, city, spread) ==
    [rows  |-> ExecuteAll(rows, Advanced(rows, city), spread),
     moved |-> Cardinality(Transferring(rows, city))]

update_transfers(rows, city, spread) ==
    [rows  |-> ExecuteAll(rows, Advanced(rows, city), spread),
     moved |-> Cardinality(Advanced(rows, city))]

-----------------------------------------------------------------------------
(* process_uavs *)

\* (dx*dx + dy*dy) ** 0.5 < d, on fixed-point differences.  The squares are
\* taken on the halves of dx = 100*a + b so that no product leaves 32 bits.
Within(dx, dy, d) ==
    LET ax == Abs(dx)
        ay == Abs(dy)
        T  == d * Unit
        a1 == ax \div 100
        b1 == ax % 100
        a2 == ay \div 100
        b2 == ay % 100
        H  == a1 * a1 + a2 * a2
        M  == 200 * (a1 * b1 + a2 * b2) + b1 * b1 + b2 * b2
    IN  /\ ax < T
        /\ ay < T
        /\ H + (M \div 10000) < (T \div 100) * (T \div 100)

\* the query of process_uavs without filter_by(city_name=city)
ScannedAll(rows, city, system_case) ==
    { u \in rows : system_case # NULL => u.system_case = system_case }

\* the query of process_uavs
Scanned(rows, city, system_case) ==
    { u \in rows : /\ u.city_name = city
                   /\ system_case # NULL => u.system_case = system_case }

\* the double loop with j running over every other row: each pair twice
CollisionsBothOrders(us) ==
    Cardinality({ p \in us \X us :
                    /\ p[1] # p[2]
                    /\ Within(p[1].x - p[2].x, p[1].y - p[2].y, CollisionDistance) })

\* the double loop: the pairs i < j of the rows read
Collisions(us) ==
    Cardinality({ p \in SUBSET us :
                    /\ Cardinality(p) = 2
                    /\ \E u \in p : \E v \in p \ {u} :
                          Within(u.x - v.x, u.y - v.y, CollisionDistance) })

\* process_uavs with the scan ahead of update_transfers
ProcessResultScanFirst(rows, city, system_case, spread) ==
    LET t  == update_transfers(rows, city, spread)
        us == Scanned(rows, city, system_case)
    IN  [rows |-> t.rows,
         processed_uavs |-> Cardinality(us),
         moved |-> t.moved,
         collisions |-> Collisions(us)]

\* process_uavs: the table after the commit and the summary returned
ProcessResult(rows, city, system_case, spread) ==
    LET t  == update_transfers(rows, city, spread)
        us == Scanned(t.rows, city, system_case)
    IN  [rows |-> t.rows,
         processed_uavs |-> Cardinality(us),
         moved |-> t.moved,
         collisions |-> Collisions(us)]

-----------------------------------------------------------------------------
(* The server *)

\* a request and its response, with the fields a request kind does not have
\* left at NULL or 0
Served(op, city, id, to, case, status, n, moved, collisions) ==
    [op |-> op, city |-> city, uav_id |-> id, to_city |-> to,
     system_case |-> case, status |-> status,
     processed_uavs |-> n, moved |-> moved, collisions |-> collisions]

\* a process_uavs coroutine: its arguments, the line it stands at (pc), whether
\* the await it stands at has completed, and its locals moved, n and
\* collisions; committed is the table as its session.commit() left it
Coroutine(call, city, case, pc, resumed, moved, committed, n, collisions) ==
    [call |-> call, city |-> city, system_case |-> case, pc |-> pc,
     resumed |-> resumed, moved |-> moved, committed |-> committed,
     n |-> n, collisions |-> collisions]

\* no coroutine is running
Idle == Coroutine(0, NULL, NULL, "idle", FALSE, 0, {}, 0, 0)

\* metadata.create_all(engine) on a new database file: an empty table
Init ==
    /\ uavs = {}
    /\ last = Served("start", NULL, 0, NULL, NULL, "ok", 0, 0, 0)
    /\ served = 0
    /\ running = Idle
    /\ suspended = {}

put_uav(city, data) ==
    LET r == PutResult(uavs, city, data)
    IN  /\ served < MaxRequests
        /\ uavs' = r.rows
        /\ last' = Served("put", city, data.uav_id, NULL, NULL, r.status, 0, 0, 0)
        /\ served' = served + 1
        /\ UNCHANGED <<running, suspended>>

transfer_uav(req) ==
    LET r == TransferResult(uavs, req)
    IN  /\ served < MaxRequests
        /\ uavs' = r.rows
        /\ last' = Served("transfer", req.from_city, req.uav_id, req.to_city,
                          NULL, r.status, 0, 0, 0)
        /\ served' = served + 1
        /\ UNCHANGED <<running, suspended>>

process_uavs(city, system_case, spread) ==
    LET r == ProcessResult(uavs, city, system_case, spread)
    IN  /\ served < MaxRequests
        /\ uavs' = r.rows
        /\ last' = Served("process", city, 0, NULL, system_case, "ok",
                          r.processed_uavs, r.moved, r.collisions)
        /\ served' = served + 1
        /\ UNCHANGED <<running, suspended>>

\* the spread draws a tick of the city can make
Spreads(city) == [Arriving(uavs, city) -> SpreadVals \X SpreadVals]

\* a POST /city/{city}/process served
Tick(city) ==
    \E system_case \in CaseFilters : \E spread \in Spreads(city) :
        process_uavs(city, system_case, spread)

Next ==
    \/ \E city \in ReqCities : \E data \in UAV : put_uav(city, data)
    \/ \E req \in TransferRequest : transfer_uav(req)
    \/ \E city \in ReqCities : Tick(city)

Spec == Init /\ [][Next]_vars

-----------------------------------------------------------------------------
(* One transfer, followed to its end: a put on the empty table, a transfer *)
(* request that is accepted, then ticks of the source city only.           *)

\* requests of a journey: the put, the transfer request and the ticks
MaxJourney == 13

JourneyPut(city, data) ==
    LET r == PutResult(uavs, city, data)
    IN  /\ last.op = "start"
        /\ uavs' = r.rows
        /\ last' = Served("put", city, data.uav_id, NULL, NULL, r.status, 0, 0, 0)
        /\ served' = served + 1
        /\ UNCHANGED <<running, suspended>>

JourneyTransfer(req) ==
    LET r == TransferResult(uavs, req)
    IN  /\ last.op = "put"
        /\ r.status = "ok"
        /\ uavs' = r.rows
        /\ last' = Served("transfer", req.from_city, req.uav_id, req.to_city,
                          NULL, r.status, 0, 0, 0)
        /\ served' = served + 1
        /\ UNCHANGED <<running, suspended>>

JourneyTick(spread) ==
    LET r == ProcessResult(uavs, last.city, NULL, spread)
    IN  /\ last.op \in {"transfer", "process"}
        /\ served < MaxJourney
        /\ uavs' = r.rows
        /\ last' = Served("process", last.city, 0, NULL, NULL, "ok",
                          r.processed_uavs, r.moved, r.collisions)
        /\ served' = served + 1
        /\ UNCHANGED <<running, suspended>>

JourneyNext ==
    \/ \E city \in ReqCities : \E data \in UAV : JourneyPut(city, data)
    \/ \E req \in TransferRequest : JourneyTransfer(req)
    \/ \E spread \in Spreads(last.city) : JourneyTick(spread)

JourneySpec == Init /\ [][JourneyNext]_vars

-----------------------------------------------------------------------------
(* The event loop: uvicorn.run(app) serves every request on one asyncio    *)
(* loop, which runs a coroutine until it awaits.  put_uav and transfer_uav *)
(* hold no await; process_uavs holds one.                                  *)

\* the requests the clients of the loop send: the configured cities they
\* use, and the payloads without target or on their way to Basra
LoopCities == {"Baghdad", "Basra"}
LoopUAV == { d \in UAV : d.target_city \in {NULL, "Basra"} /\ d.progress >= 0 }
LoopTransferRequest ==
    { req \in TransferRequest :
         req.from_city \in LoopCities /\ req.to_city \in LoopCities }

\* process_uavs with its await ahead of the query of the scan
AwaitsBeforeScan == {"scan", "sleep"}

\* the lines of process_uavs at which it awaits: asyncio.sleep
Awaits == {"sleep"}

\* the running coroutine may take its next step
Ready == running.pc \notin Awaits \/ running.resumed

LoopPut(city, data) == running = Idle /\ put_uav(city, data)

LoopTransfer(req) == running = Idle /\ transfer_uav(req)

\* the loop starts the handler of a POST /city/{city}/process
ProcessCall(city, system_case) ==
    /\ running = Idle
    /\ served < MaxRequests
    /\ served' = served + 1
    /\ running' = Coroutine(served + 1, city, system_case, "transfers",
                            FALSE, 0, {}, 0, 0)
    /\ UNCHANGED <<uavs, last, suspended>>

\* moved = update_transfers(session, city); session.commit()
StepTransfers(spread) ==
    LET t == update_transfers(uavs, running.city, spread)
    IN  /\ running.pc = "transfers"
        /\ Ready
        /\ uavs' = t.rows
        /\ running' = [running EXCEPT !.pc = "scan", !.resumed = FALSE,
                                      !.moved = t.moved, !.committed = t.rows]
        /\ UNCHANGED <<last, served, suspended>>

\* the query and the double loop
StepScan ==
    LET us == Scanned(uavs, running.city, running.system_case)
    IN  /\ running.pc = "scan"
        /\ Ready
        /\ running' = [running EXCEPT !.pc = "sleep", !.resumed = FALSE,
                                      !.n = Cardinality(us),
                                      !.collisions = Collisions(us)]
        /\ UNCHANGED <<uavs, last, served, suspended>>

\* the coroutine reaches an await and gives the loop back
Yield ==
    /\ running.pc \in Awaits
    /\ ~running.resumed
    /\ suspended' = suspended \cup {[running EXCEPT !.resumed = TRUE]}
    /\ running' = Idle
    /\ UNCHANGED <<uavs, last, served>>

\* the loop goes on with a coroutine whose await has completed
Resume(c) ==
    /\ running = Idle
    /\ running' = c
    /\ suspended' = suspended \ {c}
    /\ UNCHANGED <<uavs, last, served>>

\* after the sleep: the summary is returned
StepReturn ==
    /\ running.pc = "sleep"
    /\ Ready
    /\ last' = Served("process", running.city, 0, NULL, running.system_case,
                      "ok", running.n, running.moved, running.collisions)
    /\ running' = Idle
    /\ UNCHANGED <<uavs, served, suspended>>

LoopNext ==
    \/ \E city \in LoopCities : \E data \in LoopUAV : LoopPut(city, data)
    \/ \E req \in LoopTransferRequest : LoopTransfer(req)
    \/ \E city \in LoopCities : \E system_case \in CaseFilters :
          ProcessCall(city, system_case)
    \/ \E spread \in Spreads(running.city) : StepTransfers(spread)
    \/ StepScan
    \/ Yield
    \/ \E c \in suspended : Resume(c)
    \/ StepReturn

LoopSpec == Init /\ [][LoopNext]_vars

-----------------------------------------------------------------------------
(* Properties *)

Cities == DOMAIN CITY_COORDS

\* the rows stored under a uav_id
RowsOf(rows, id) == { u \in rows : u.uav_id = id }

\* row v lies at the anchor of city plus a spread within the limits
AtAnchor(v, city) ==
    /\ Abs(v.x - CITY_COORDS[city][1]) <= SpreadLimit
    /\ Abs(v.y - CITY_COORDS[city][2]) <= SpreadLimit

\* row u of a configured city is one tick away from a configured target
AboutToArrive(u, city) ==
    /\ city \in Cities
    /\ u.city_name = city
    /\ u.target_city \in Cities
    /\ u.progress + 10 >= 100

\* the step serves a process request for the city
TickOf(city) == last'.op = "process" /\ last'.city = city

C2_StateMachineInvariant ==
    last.op = "process" =>
        \A u \in uavs : u.city_name = last.city =>
            \/ u.target_city = NULL
            \/ (u.progress >= 0 /\ u.progress < 100)

\* C3 as stated: from one state to the next, an entity whose target zone
\* stays set never loses progress, whatever request is served.
C3_ProgressNeverDecreases ==
    [][\A u \in uavs : \A v \in uavs' :
         (u.uav_id = v.uav_id /\ u.target_city # NULL /\ v.target_city # NULL)
            => v.progress >= u.progress]_vars

\* C3 amended: in a process tick, an entity whose target zone stays set
\* never loses progress.
C3_TickNeverDecreasesProgress ==
    [][(\E city \in ReqCities : TickOf(city)) =>
         \A u \in uavs : \A v \in uavs' :
            (u.uav_id = v.uav_id /\ u.target_city # NULL /\ v.target_city # NULL)
               => v.progress >= u.progress]_vars

\* a tick has advanced an entity that is still on its way, after a transfer
\* request restarted it at 0
C3_Witness ==
    /\ last.op = "process"
    /\ last.moved >= 1
    /\ \E v \in uavs :
          /\ v.city_name = last.city
          /\ v.target_city \in Cities
          /\ v.progress = 10

\* C4: a transfer request whose uav_id has no row in from_city is answered
\* with an error and leaves the table as it was.
C4_EntityNotFound ==
    [][(/\ last'.op = "transfer"
        /\ ~ \E u \in uavs : u.uav_id = last'.uav_id /\ u.city_name = last'.city)
           => (last'.status = "error" /\ uavs' = uavs)]_vars

\* a transfer request was refused while its uav_id is stored under another
\* city
C4_Witness ==
    /\ last.op = "transfer"
    /\ last.status = "error"
    /\ \E u \in uavs : u.uav_id = last.uav_id /\ u.city_name # last.city

\* a request names a city that is not configured
NamesUnknownZone(r) ==
    \/ r.op \in {"put", "transfer", "process"} /\ r.city \notin Cities
    \/ r.op = "transfer" /\ r.to_city \notin Cities

\* C5 as stated: a request naming a zone outside the configured set is
\* answered with an error and changes no stored entity.
C5_InvalidZone ==
    [][NamesUnknownZone(last') => (last'.status # "ok" /\ uavs' = uavs)]_vars

\* C6 as stated: every stored entity's zone is a configured zone.
C6_ZoneMembership ==
    \A u \in uavs : u.city_name \in Cities

\* C7: the table never holds two rows with the same uav_id.
C7_OneZonePerId ==
    \A u \in uavs : \A v \in uavs : u.uav_id = v.uav_id => u = v

\* a put of a stored uav_id under another city has been served
C7_Witness ==
    /\ last.op = "put"
    /\ \E u \in uavs : u.uav_id = last.uav_id /\ u.city_name # last.city

\* C8 as stated: every put succeeds and leaves exactly one row with the
\* request's uav_id, holding the request's fields and the request's city.
C8_Upsert ==
    [][\A city \in ReqCities : \A data \in UAV :
         put_uav(city, data) =>
            /\ last'.status = "ok"
            /\ RowsOf(uavs', data.uav_id) = { [city_name |-> city] @@ data }]_vars

\* C9: a tick keeps the set of stored uav_ids and the number of rows, and a
\* row of the ticked zone is afterwards still in the zone unless the tick
\* finalized its transfer and moved it to its target.
C9_CardinalityPreserved ==
    [][\A city \in ReqCities : TickOf(city) =>
         /\ { u.uav_id : u \in uavs' } = { u.uav_id : u \in uavs }
         /\ Cardinality(uavs') = Cardinality(uavs)
         /\ \A u \in uavs : u.city_name = city =>
               \A v \in RowsOf(uavs', u.uav_id) :
                  \/ v.city_name = city
                  \/ /\ u.target_city # NULL
                     /\ u.progress + 10 >= 100
                     /\ v.city_name = u.target_city
                     /\ v.target_city = NULL
         /\ \A v \in uavs' : v.city_name = city =>
               \E u \in RowsOf(uavs, v.uav_id) : u.city_name = city]_vars

\* a tick has moved an entity out of its zone while another is stored
C9_Witness ==
    /\ last.op = "process"
    /\ last.system_case = NULL
    /\ last.moved > last.processed_uavs
    /\ Cardinality(uavs) = 2

\* the rows of one city
ZoneRows(rows, city) == { u \in rows : u.city_name = city }

\* C10: a tick of zone Z leaves every row of another zone as it was, and
\* its summary is the one the same tick gives on Z's rows alone.
C10_ZoneIndependence ==
    [][\A city \in ReqCities : \A system_case \in CaseFilters :
         \A spread \in Spreads(city) :
            (/\ last'.op = "process"
             /\ last'.city = city
             /\ last'.system_case = system_case
             /\ process_uavs(city, system_case, spread)) =>
               LET alone == ProcessResult(ZoneRows(uavs, city), city,
                                          system_case, spread)
               IN  /\ \A u \in uavs : u.city_name # city => u \in uavs'
                   /\ last'.processed_uavs = alone.processed_uavs
                   /\ last'.moved = alone.moved
                   /\ last'.collisions = alone.collisions
                   /\ last'.processed_uavs <= Cardinality(ZoneRows(uavs, city))]_vars

\* a tick has counted one entity while an entity of another zone sits at
\* the same coordinates
C10_Witness ==
    /\ last.op = "process"
    /\ last.processed_uavs = 1
    /\ last.collisions = 0
    /\ \E u \in uavs : \E v \in uavs :
          /\ u.city_name = last.city
          /\ v.city_name # last.city
          /\ u.x = v.x
          /\ u.y = v.y

\* the planar distance of rows u and v is below 5: the sum of the squares,
\* in units of 1/10000, is below 25 * 10^8 (squares split at 1000 to stay
\* in 32 bits)
CloserThanFive(u, v) ==
    LET ax == Abs(u.x - v.x)
        ay == Abs(u.y - v.y)
        hx == ax \div 1000
        lx == ax % 1000
        hy == ay \div 1000
        ly == ay % 1000
    IN  /\ ax < 50000
        /\ ay < 50000
        /\ hx * hx + hy * hy
             + ((2000 * (hx * lx + hy * ly) + lx * lx + ly * ly) \div 1000000) < 2500

\* the unordered pairs of distinct rows of us closer than 5, each once
ClosePairs(us) ==
    { p \in us \X us : p[1].uav_id < p[2].uav_id /\ CloserThanFive(p[1], p[2]) }

\* C11 as stated: the collision count of a tick is the number of unordered
\* pairs of distinct entities of the zone at planar distance below 5.
C11_CollisionCountOfZone ==
    [][\A city \in ReqCities : TickOf(city) =>
         last'.collisions = Cardinality(ClosePairs(ZoneRows(uavs', city)))]_vars

\* C11 amended: the pairs are those of the entities the tick scans, which
\* are the zone's entities with the request's system_case when it has one.
C11_CollisionCount ==
    [][\A city \in ReqCities : TickOf(city) =>
         last'.collisions =
            Cardinality(ClosePairs(
               { u \in ZoneRows(uavs', city) :
                    last'.system_case = NULL \/ u.system_case = last'.system_case }))]_vars

\* a tick without filter has counted the one pair of entities at (0,0) and
\* (3,0)
C11_Witness ==
    /\ last.op = "process"
    /\ last.system_case = NULL
    /\ last.collisions = 1
    /\ \E u \in uavs : \E v \in uavs :
          /\ u.city_name = last.city /\ v.city_name = last.city
          /\ u.x = 0 /\ u.y = 0 /\ v.x = 30000 /\ v.y = 0

\* C12 as stated: a tick that finds two entities of the zone close to each
\* other (here: below the collision distance, at the same altitude) leaves
\* both in "avoidance" with their speeds multiplied by 0.85.
C12_AvoidanceResolution ==
    [][\A city \in ReqCities : TickOf(city) =>
         \A u \in ZoneRows(uavs, city) : \A v \in ZoneRows(uavs, city) :
            (/\ u.uav_id # v.uav_id
             /\ u.target_city = NULL /\ v.target_city = NULL
             /\ u.altitude = v.altitude
             /\ CloserThanFive(u, v))
               => \A w \in RowsOf(uavs', u.uav_id) :
                     /\ w.system_case = "avoidance"
                     /\ 100 * w.speed = 85 * u.speed]_vars

\* C13: a transfer request for an entity stored in from_city is accepted
\* and sets its target to to_city and its progress to 0, leaving its other
\* fields and every other row as they were.
C13_TransferRequestEffect ==
    [][last'.op = "transfer" =>
         \A u \in uavs :
            (u.uav_id = last'.uav_id /\ u.city_name = last'.city) =>
               /\ last'.status = "ok"
               /\ uavs' = (uavs \ {u}) \cup
                     { [u EXCEPT !.target_city = last'.to_city, !.progress = 0] }]_vars

\* a transfer request was accepted for the entity put at (5,0) with target
\* Basra and progress 90, and has sent it elsewhere
C13_Witness ==
    /\ last.op = "transfer"
    /\ last.status = "ok"
    /\ last.to_city # "Basra"
    /\ \E u \in uavs :
          /\ u.uav_id = last.uav_id
          /\ u.x = 50000
          /\ u.target_city = last.to_city
          /\ u.progress = 0

\* C14: a tick of configured zone A takes an entity of A with configured
\* target B and progress p, p + 10 < 100, to progress p + 10 and position
\* A + ((p + 10) / 100) * (B - A), and leaves its other fields alone.
C14_LinearInterpolation ==
    [][\A city \in ReqCities : TickOf(city) =>
         \A u \in ZoneRows(uavs, city) :
            (/\ city \in Cities
             /\ u.target_city \in Cities
             /\ u.progress + 10 < 100)
               => \E v \in uavs' :
                     /\ RowsOf(uavs', u.uav_id) = {v}
                     /\ v = [u EXCEPT !.progress = v.progress, !.x = v.x, !.y = v.y]
                     /\ v.progress = u.progress + 10
                     /\ 100 * (v.x - CITY_COORDS[city][1]) =
                           (u.progress + 10)
                              * (CITY_COORDS[u.target_city][1] - CITY_COORDS[city][1])
                     /\ 100 * (v.y - CITY_COORDS[city][2]) =
                           (u.progress + 10)
                              * (CITY_COORDS[u.target_city][2] - CITY_COORDS[city][2])]_vars

\* an entity on its way from Baghdad to Basra stands at a tenth of the way
C14_Witness ==
    /\ last.op = "process"
    /\ last.city = "Baghdad"
    /\ \E v \in uavs :
          /\ v.city_name = "Baghdad"
          /\ v.target_city = "Basra"
          /\ v.progress = 10
          /\ v.x = 330200
          /\ v.y = 447400

\* C16: a tick leaves every row of the zone that has no target exactly as
\* it was.
C16_NonTransferringUntouched ==
    [][\A city \in ReqCities : TickOf(city) =>
         \A u \in ZoneRows(uavs, city) : u.target_city = NULL => u \in uavs']_vars

\* a tick has moved an entity of a zone in which an entity without target
\* that never travelled is stored
C16_Witness ==
    /\ last.op = "process"
    /\ last.moved >= 1
    /\ \E u \in uavs :
          /\ u.city_name = last.city
          /\ u.target_city = NULL
          /\ u.progress = 0

\* row u has a target, and its city or its target is not configured
Misconfigured(u) ==
    /\ u.target_city # NULL
    /\ (u.city_name \notin Cities \/ u.target_city \notin Cities)

\* C17: a tick of a zone holding a transferring row whose city or target is
\* not configured answers with a summary, leaves that row as it was and
\* does not count it, and advances by 10 or finalizes every other
\* transferring row of the zone.
C17_FailureIsolation ==
    [][\A city \in ReqCities :
         (TickOf(city) /\ \E u \in ZoneRows(uavs, city) : Misconfigured(u)) =>
            /\ last'.status = "ok"
            /\ \A u \in ZoneRows(uavs, city) : Misconfigured(u) => u \in uavs'
            /\ last'.moved =
                  Cardinality({ u \in ZoneRows(uavs, city) :
                                   u.target_city # NULL /\ ~Misconfigured(u) })
            /\ \A u \in ZoneRows(uavs, city) :
                  (u.target_city # NULL /\ ~Misconfigured(u)) =>
                     \E v \in uavs' :
                        /\ RowsOf(uavs', u.uav_id) = {v}
                        /\ IF u.progress + 10 < 100
                           THEN /\ v.progress = u.progress + 10
                                /\ v.target_city = u.target_city
                                /\ v.city_name = city
                           ELSE /\ v.target_city = NULL
                                /\ v.city_name = u.target_city]_vars

\* a tick of a configured zone has moved one entity and left another, whose
\* target is not configured, in the zone
C17_Witness ==
    /\ last.op = "process"
    /\ last.city \in Cities
    /\ last.moved = 1
    /\ \E u \in uavs :
          /\ u.city_name = last.city
          /\ u.target_city = "Mosul"
          /\ u.progress = 50

\* C18: the counts of a tick are taken after its transfer step: the scan
\* and processed_uavs are those of the rows the zone holds after the tick
\* (with the request's system_case, when given), while moved counts the
\* rows the transfer step advanced or finalized.
C18_StepOrdering ==
    [][\A city \in ReqCities : TickOf(city) =>
         LET after == { v \in ZoneRows(uavs', city) :
                          last'.system_case = NULL \/ v.system_case = last'.system_case }
             moved == { u \in ZoneRows(uavs, city) :
                          u.target_city # NULL /\ ~Misconfigured(u) }
         IN  /\ last'.processed_uavs = Cardinality(after)
             /\ last'.collisions = Cardinality(ClosePairs(after))
             /\ last'.moved = Cardinality(moved)
             /\ \A u \in moved :
                   (u.progress + 10 >= 100 /\ u.target_city # city)
                      => \A v \in after : v.uav_id # u.uav_id]_vars

\* a tick has advanced the entity put at (3,0) away from the one at (0,0)
\* and has scanned both without finding the pair
C18_Witness ==
    /\ last.op = "process"
    /\ last.system_case = NULL
    /\ last.processed_uavs = 2
    /\ last.moved = 1
    /\ last.collisions = 0
    /\ \E u \in uavs : \E v \in uavs :
          /\ u.city_name = last.city /\ v.city_name = last.city
          /\ u.x = 0 /\ u.y = 0 /\ u.target_city = NULL
          /\ v.progress = -10 /\ v.target_city = "Basra"

\* C20: the city of a stored uav_id changes only in a tick of its city that
\* finalizes its transfer, and then becomes its target.
C20_ZoneChangesOnlyByArrival ==
    [][\A u \in uavs : \A v \in uavs' :
         (u.uav_id = v.uav_id /\ v.city_name # u.city_name) =>
            /\ last'.op = "process"
            /\ last'.city = u.city_name
            /\ u.target_city # NULL
            /\ u.progress + 10 >= 100
            /\ v.city_name = u.target_city]_vars

\* the entity put with progress 90 and system_case "normal" has arrived in
\* Basra in a tick of another zone
C20_Witness ==
    /\ last.op = "process"
    /\ last.city # "Basra"
    /\ \E v \in uavs :
          /\ v.city_name = "Basra"
          /\ v.progress = 100
          /\ v.target_city = NULL
          /\ v.system_case = "normal"

\* C15 as stated: an entity put into transfer by an accepted request has
\* arrived (no target left, progress at its end) once its source zone has
\* been ticked 10 times and nothing else has touched it.
C15_BoundedTransfer ==
    (last.op = "process" /\ served >= 12) =>
        \A u \in uavs : u.target_city = NULL /\ u.progress = 100

\* the coroutines in flight
InFlight == (IF running = Idle THEN {} ELSE {running}) \cup suspended

\* C19: nothing takes effect between a process call's commit and its scan,
\* and the counts of its summary are those of the table its own commit
\* left.
C19_TickAtomicity ==
    \A c \in InFlight :
       /\ (c.pc = "scan" /\ c = running) => uavs = c.committed
       /\ c.pc = "sleep" =>
             LET us == { u \in ZoneRows(c.committed, c.city) :
                           c.system_case = NULL \/ u.system_case = c.system_case }
             IN  /\ c.n = Cardinality(us)
                 /\ c.collisions = Cardinality(ClosePairs(us))

\* a process call sleeps with its summary of one entity while another
\* request has changed the table
C19_Witness ==
    \E c \in suspended :
       /\ c.pc = "sleep"
       /\ c.n = 1
       /\ c.committed # uavs

=============================================================================
